---- MODULE Spec2Model ----
(***************************************************************************)
(* A model of dms_tools2/pacbio.py: the dual-orientation annotator         *)
(* matchSeqs and the alignment annotator alignSeqs, as state machines over  *)
(* column-oriented tables.                                                  *)
(*                                                                         *)
(* A table is [obj, cols]: obj names the Python object, cols is a sequence  *)
(* of columns [name, vals, src]; src tells which frame the column was       *)
(* taken from ("df": the caller's table, "new": the frame built by the      *)
(* call).  One row of the table is one index of every column's vals.        *)
(***************************************************************************)
EXTENDS Integers, Sequences, FiniteSets, TLC

\* Longest read of the input tables.
MaxLen == 3

Nts == {"A", "C", "G", "T"}

\* Every nucleotide sequence of length at most n.
Seqs(n) == UNION {[1..k -> Nts] : k \in 0..n}

Range(f) == {f[x] : x \in DOMAIN f}

Max(S) == CHOOSE x \in S : \A y \in S : y <= x

RECURSIVE SumSeq(_)
SumSeq(q) == IF Len(q) = 0 THEN 0 ELSE Head(q) + SumSeq(Tail(q))

RECURSIVE Pow10(_)
Pow10(n) == IF n = 0 THEN 1 ELSE 10 * Pow10(n - 1)

(***************************************************************************)
(* dms_tools2.utils.reverseComplement and numpy.flip                        *)
(***************************************************************************)
Complement(c) ==
    CASE c = "A" -> "T" [] c = "T" -> "A" [] c = "C" -> "G" [] c = "G" -> "C"

reverseComplement(s) == [k \in 1..Len(s) |-> Complement(s[Len(s) + 1 - k])]

flip(q) == [k \in 1..Len(q) |-> q[Len(q) + 1 - k]]

\* Python's s[a : b] with 0 <= a <= b <= len(s).
Slice(s, a, b) == SubSeq(s, a + 1, b)

(***************************************************************************)
(* qvalsToAccuracy(qvals): nan for an empty array, and otherwise the mean   *)
(* of 1 - 10**(-Q/10).  A number is kept as the exact fraction num/den; the *)
(* Q-values of the model are multiples of 10, for which 10**(-Q/10) is a    *)
(* power of ten.                                                            *)
(***************************************************************************)
AccScale == Pow10(3)

NaN == [nan |-> TRUE, num |-> 0, den |-> 0]

Number(n) == [nan |-> FALSE, num |-> n, den |-> 1]

\* Python's x == n for a float x and an int n (nan equals nothing).
NumEq(x, n) == ~x.nan /\ x.num = n * x.den

PCorrect(Q) == AccScale - (AccScale \div Pow10(Q \div 10))

\* A qvalsToAccuracy that answers -1 for the empty array.
qvalsToAccuracy_drop_len(qvals) ==
    IF Len(qvals) = 0
    THEN Number(-1)
    ELSE [nan |-> FALSE,
          num |-> SumSeq([k \in 1..Len(qvals) |-> PCorrect(qvals[k])]),
          den |-> Len(qvals) * AccScale]

qvalsToAccuracy(qvals) ==
    IF Len(qvals) = 0
    THEN NaN
    ELSE [nan |-> FALSE,
          num |-> SumSeq([k \in 1..Len(qvals) |-> PCorrect(qvals[k])]),
          den |-> Len(qvals) * AccScale]

\* The Q-values of a read of length n: 10, 20, 30, 10, ...
Ramp(n) == [k \in 1..n |-> 10 * (((k - 1) % 3) + 1)]

(***************************************************************************)
(* Patterns.  A match_str is a sequence of atoms [name, nt, lo, hi]: the    *)
(* character nt repeated lo..hi times (hi = -1: no upper limit), inside the *)
(* named group (?P<name>...) when name # "", outside every group otherwise. *)
(***************************************************************************)
Atom(name, nt, lo, hi) == [name |-> name, nt |-> nt, lo |-> lo, hi |-> hi]

\* A(?P<barcode>N{1})(?P<read>N+): the CCS doctest's pattern, shortened.
PatBarcode ==
    << Atom("", "A", 1, 1), Atom("barcode", "N", 1, 1), Atom("read", "N", 1, -1) >>

\* (?P<termini5>A)(?P<gene>N+)(?P<termini3>C): as matchAndAlignCCS builds it.
PatTermini ==
    << Atom("termini5", "A", 1, 1), Atom("gene", "N", 1, -1),
       Atom("termini3", "C", 1, 1) >>

\* AC: no named group (the has_termini5 check of matchAndAlignCCS).
PatPlain == << Atom("", "A", 1, 1), Atom("", "C", 1, 1) >>

\* A(?P<UMI>C*): a named group that can match the empty string.
PatEmpty == << Atom("", "A", 1, 1), Atom("UMI", "C", 0, -1) >>

\* (?P<barcode>A)(?P<barcode>C): two groups of one name.
PatDup == << Atom("barcode", "A", 1, 1), Atom("barcode", "C", 1, 1) >>

\* match_str = None
NoPattern == << Atom("None", "None", 0, 0) >>

Patterns == {PatBarcode, PatTermini, PatPlain, PatEmpty, PatDup}

\* dms_tools2.NT_TO_REGEXP: the character class of an IUPAC code.
NT_TO_REGEXP(c) == IF c = "N" THEN Nts ELSE {c}

\* re_expandIUPAC on a pattern of atoms: the group names are left alone,
\* every other character is replaced by its class.
re_expandIUPAC(re_str) ==
    [k \in 1..Len(re_str) |->
        [name |-> re_str[k].name, cls |-> NT_TO_REGEXP(re_str[k].nt),
         lo |-> re_str[k].lo, hi |-> re_str[k].hi]]

\* The pattern compiled as written: every character stands for itself.
Literal(re_str) ==
    [k \in 1..Len(re_str) |->
        [name |-> re_str[k].name, cls |-> {re_str[k].nt},
         lo |-> re_str[k].lo, hi |-> re_str[k].hi]]

(***************************************************************************)
(* regex: compile, search and the match object                              *)
(***************************************************************************)
\* The longest run of characters of cls in s from offset pos, at most hi.
RECURSIVE Run(_, _, _, _)
Run(s, pos, cls, hi) ==
    IF pos >= Len(s) \/ hi = 0 \/ s[pos + 1] \notin cls
    THEN 0
    ELSE 1 + Run(s, pos + 1, cls, IF hi = -1 THEN -1 ELSE hi - 1)

NoMatch == [ok |-> FALSE, ends |-> << >>]

\* Atoms k.. of the pattern matched at offset pos: greedy, backtracking to a
\* shorter repetition when the rest of the pattern fails.  ends[j] is the
\* offset after atom k+j-1.
RECURSIVE MatchAtoms(_, _, _, _)
MatchAtoms(atoms, k, s, pos) ==
    IF k > Len(atoms)
    THEN [ok |-> TRUE, ends |-> << >>]
    ELSE LET a == atoms[k]
             longest == Run(s, pos, a.cls, a.hi)
             fits == {n \in a.lo..longest : MatchAtoms(atoms, k + 1, s, pos + n).ok}
         IN  IF fits = {}
             THEN NoMatch
             ELSE [ok |-> TRUE,
                   ends |-> << pos + Max(fits) >>
                            \o MatchAtoms(atoms, k + 1, s, pos + Max(fits)).ends]

\* matcher.search(s): the match at the leftmost offset that has one, as the
\* match object [ok, start, ends] (ok = FALSE: Python's None).
search(atoms, s) ==
    LET starts == {p \in 0..Len(s) : MatchAtoms(atoms, 1, s, p).ok}
    IN  IF starts = {}
        THEN [ok |-> FALSE, start |-> 0, ends |-> << >>]
        ELSE LET p == CHOOSE q \in starts : \A r \in starts : q <= r
             IN  [ok |-> TRUE, start |-> p, ends |-> MatchAtoms(atoms, 1, s, p).ends]

\* matcher.groupindex.keys(): a dict's keys, each group name once, in the
\* order of first appearance (regex gives groups of one name one number).
RECURSIVE groupindex(_)
groupindex(atoms) ==
    IF Len(atoms) = 0
    THEN << >>
    ELSE LET front == groupindex(SubSeq(atoms, 1, Len(atoms) - 1))
             g == atoms[Len(atoms)].name
         IN  IF g = "" \/ g \in Range(front) THEN front ELSE Append(front, g)

\* The last atom that captures group g.
GroupAtom(atoms, g) == Max({k \in 1..Len(atoms) : atoms[k].name = g})

\* A start(g) that answers the start of the whole match.
GroupStart_of_match(atoms, m, g) == m.start

\* m.start(g), m.end(g), m.start(), m.end()
GroupStart(atoms, m, g) ==
    IF GroupAtom(atoms, g) = 1 THEN m.start ELSE m.ends[GroupAtom(atoms, g) - 1]

GroupEnd(atoms, m, g) == m.ends[GroupAtom(atoms, g)]

MatchEnd(m) == IF Len(m.ends) = 0 THEN m.start ELSE m.ends[Len(m.ends)]

(***************************************************************************)
(* Tables                                                                   *)
(***************************************************************************)
\* A column with its rows in the opposite order.
Column_reversed(name, vals, src) ==
    [name |-> name, vals |-> [k \in 1..Len(vals) |-> vals[Len(vals) + 1 - k]],
     src |-> src]

Column(name, vals, src) == [name |-> name, vals |-> vals, src |-> src]

Columns(t) == {t.cols[k].name : k \in DOMAIN t.cols}

\* df[c]: the values of the column named c.
Col(t, c) == t.cols[CHOOSE k \in DOMAIN t.cols : t.cols[k].name = c].vals

NRows(t) == Len(t.cols[1].vals)

\* df.drop(names, axis=1)
drop(t, names) == SelectSeq(t.cols, LAMBDA col : col.name \notin names)

\* No table: the call has not returned, or it raised.
NoTable == [obj |-> "none", cols |-> << >>]

\* A call that is not made by matchAndAlignCCS.
NoPipe == [fn |-> "none"]

(***************************************************************************)
(* The state                                                                *)
(***************************************************************************)
VARIABLES
    call,      \* the function called and its arguments
    df,        \* the caller's table
    pc,        \* "call", "loop", "write", "map", "returned" or "raised"
    match_d,   \* matchSeqs: new column name -> the list of its values so far
    ms,        \* matchSeqs: per row done, the locals m, polarity and the searches run
    align_d,   \* alignSeqs: new column name -> the list of its values so far
    queryfile, \* alignSeqs: the temporary file, as written and as on disk
    map_dict,  \* alignSeqs: what mapper.map returned
    maps,      \* alignSeqs: per call of mapper.map, the file contents it read
    result,    \* the table returned
    err,       \* the exception raised ("" when none)
    hooks,     \* alignSeqs: the calls of the hooks, in order
    pipe,      \* matchAndAlignCCS: its arguments and locals (NoPipe outside it)
    groupname_indices, \* re_expandIUPAC: the indices of the group name markers
    new_re_str \* re_expandIUPAC: per character of re_str, what replaces it

vars == << call, df, pc, match_d, ms, align_d, queryfile, map_dict, maps,
           result, err, hooks, pipe, groupname_indices, new_re_str >>

matchvars == << match_d, ms >>

alignvars == << align_d, queryfile, map_dict, maps, hooks >>

expandvars == << groupname_indices, new_re_str >>

\* The flag overwrite in effect: the argument, or the signature's default.
Overwrite(default) ==
    IF call.overwrite = "omitted" THEN default ELSE call.overwrite = "True"

(***************************************************************************)
(* matchSeqs(df, match_str, col_to_match, match_col, *, add_polarity=True,  *)
(*           add_group_cols=True, add_accuracy=True, add_qvals=True,        *)
(*           expandIUPAC=True, overwrite=False)                             *)
(***************************************************************************)
\* matcher = regex.compile(match_str), after re_expandIUPAC when asked.
matcher ==
    IF call.expandIUPAC THEN re_expandIUPAC(call.match_str)
    ELSE Literal(call.match_str)

\* groupnames
groupnames == IF call.add_group_cols THEN groupindex(matcher) ELSE << >>

AccuracyCols ==
    [k \in 1..Len(groupnames) |->
        [name |-> groupnames[k] \o "_accuracy", kind |-> "accuracy",
         group |-> groupnames[k]]]

QvalsCols ==
    [k \in 1..Len(groupnames) |->
        [name |-> groupnames[k] \o "_qvals", kind |-> "qvals",
         group |-> groupnames[k]]]

\* newcols, each with what it holds.
match_newcols ==
    << [name |-> call.match_col, kind |-> "match", group |-> ""] >>
    \o (IF call.add_polarity
        THEN << [name |-> call.match_col \o "_polarity", kind |-> "polarity",
                 group |-> ""] >>
        ELSE << >>)
    \o [k \in 1..Len(groupnames) |->
            [name |-> groupnames[k], kind |-> "group", group |-> groupnames[k]]]
    \o (IF call.add_group_cols /\ call.add_accuracy THEN AccuracyCols ELSE << >>)
    \o (IF call.add_group_cols /\ call.add_qvals THEN QvalsCols ELSE << >>)

NewColNames(newcols) == {newcols[k].name : k \in DOMAIN newcols}

\* A test for the Q-values that leaves add_group_cols out.
needs_qvals_any == call.add_accuracy \/ call.add_qvals

\* Whether the loop reads the Q-values of the row.
needs_qvals == call.add_group_cols /\ (call.add_accuracy \/ call.add_qvals)

match_qvals_col == call.col_to_match \o "_qvals"

\* dup_cols = set(newcols).intersection(set(df.columns))
match_dup_cols == NewColNames(match_newcols) \cap Columns(df)

\* The exception the checks before the loop raise ("" when none).
match_precheck ==
    IF call.col_to_match \notin Columns(df) THEN "AssertionError: no col_to_match"
    ELSE IF call.add_group_cols
            /\ Cardinality(Range(groupindex(matcher))) # Len(groupindex(matcher))
    THEN "ValueError: duplicate group names"
    ELSE IF needs_qvals /\ match_qvals_col \notin Columns(df)
    THEN "ValueError: no qvals column"
    ELSE IF ~Overwrite(FALSE) /\ match_dup_cols # {}
    THEN "ValueError: columns exist"
    ELSE ""

\* A search that tries the reverse complement first.
SearchBoth_prefers_revcomp(s) ==
    LET rev == search(matcher, reverseComplement(s))
    IN  IF rev.ok
        THEN [m |-> rev, polarity |-> -1, searched |-> << "revcomp" >>]
        ELSE [m |-> search(matcher, s), polarity |-> 1,
              searched |-> << "revcomp", "given" >>]

\* The two searches of one row: the sequence as given and, only when that
\* fails, its reverse complement.  polarity is the local variable (-1 also
\* when the second search fails).
SearchBoth(s) ==
    LET fwd == search(matcher, s)
    IN  IF fwd.ok
        THEN [m |-> fwd, polarity |-> 1, searched |-> << "given" >>]
        ELSE [m |-> search(matcher, reverseComplement(s)), polarity |-> -1,
              searched |-> << "given", "revcomp" >>]

\* An orientation that never reverse-complements.
Oriented_given(s, polarity) == s

\* The sequence and the Q-values in the orientation of the match.
Oriented(s, polarity) == IF polarity = 1 THEN s ELSE reverseComplement(s)

\* Q-values that are never flipped.
OrientedQvals_given(q, polarity) == q

OrientedQvals(q, polarity) == IF polarity = 1 THEN q ELSE flip(q)

\* What row r appends to new column c when the pattern matched.
MatchedCell(c, r, sb) ==
    LET s == Oriented(Col(df, call.col_to_match)[r], sb.polarity)
        a == GroupStart(matcher, sb.m, c.group)
        b == GroupEnd(matcher, sb.m, c.group)
    IN  CASE c.kind = "match" -> TRUE
          [] c.kind = "polarity" -> sb.polarity
          [] c.kind = "group" -> Slice(s, a, b)
          [] c.kind = "qvals" ->
                Slice(OrientedQvals(Col(df, match_qvals_col)[r], sb.polarity), a, b)
          [] c.kind = "accuracy" ->
                qvalsToAccuracy(Slice(
                    OrientedQvals(Col(df, match_qvals_col)[r], sb.polarity), a, b))

\* Unmatched rows with accuracy nan in place of -1.
UnmatchedCell_nan(c) ==
    CASE c.kind = "match" -> FALSE
      [] c.kind = "polarity" -> 0
      [] c.kind = "group" -> << >>
      [] c.kind = "qvals" -> << >>
      [] c.kind = "accuracy" -> NaN

\* What a row appends to new column c when neither search matched.
UnmatchedCell(c) ==
    CASE c.kind = "match" -> FALSE
      [] c.kind = "polarity" -> 0
      [] c.kind = "group" -> << >>
      [] c.kind = "qvals" -> << >>
      [] c.kind = "accuracy" -> Number(-1)

NewCol(newcols, name) == newcols[CHOOSE k \in DOMAIN newcols : newcols[k].name = name]

\* A concat that keeps the colliding columns of df.
concat_nodrop(newcols, dup_cols, d) ==
    [obj |-> "new",
     cols |-> df.cols
              \o [k \in 1..Len(newcols) |->
                     Column(newcols[k].name, d[newcols[k].name], "new")]]

\* A concat that adds the new columns to df itself.
concat_inplace(newcols, dup_cols, d) ==
    [obj |-> "df",
     cols |-> drop(df, dup_cols)
              \o [k \in 1..Len(newcols) |->
                     Column(newcols[k].name, d[newcols[k].name], "new")]]

\* pandas.concat([df.drop(dup_cols, axis=1), DataFrame(d)], axis=1)
concat(newcols, dup_cols, d) ==
    [obj |-> "new",
     cols |-> drop(df, dup_cols)
              \o [k \in 1..Len(newcols) |->
                     Column(newcols[k].name, d[newcols[k].name], "new")]]

\* Lines 591-633: the early return, the checks, the empty lists.
matchSeqs_begin ==
    /\ pc = "call"
    /\ call.fn = "matchSeqs"
    /\ IF call.match_str = NoPattern
       THEN /\ pc' = "returned"
            /\ result' = df
            /\ UNCHANGED << match_d, err >>
       ELSE IF match_precheck # ""
       THEN /\ pc' = "raised"
            /\ err' = match_precheck
            /\ UNCHANGED << match_d, result >>
       ELSE /\ pc' = "loop"
            /\ match_d' = [c \in NewColNames(match_newcols) |-> << >>]
            /\ UNCHANGED << result, err >>
    /\ UNCHANGED << expandvars, pipe, call, df, ms, alignvars >>

\* Lines 634-666: one pass of the loop over the rows.
matchSeqs_row ==
    /\ pc = "loop"
    /\ call.fn = "matchSeqs"
    /\ Len(ms) < NRows(df)
    /\ LET r == Len(ms) + 1
           sb == SearchBoth(Col(df, call.col_to_match)[r])
       IN  /\ ms' = Append(ms, [m |-> sb.m, polarity |-> sb.polarity,
                                 searched |-> sb.searched, qs_read |-> needs_qvals])
           /\ match_d' =
                [c \in DOMAIN match_d |->
                    Append(match_d[c],
                           IF sb.m.ok
                           THEN MatchedCell(NewCol(match_newcols, c), r, sb)
                           ELSE UnmatchedCell(NewCol(match_newcols, c)))]
    /\ UNCHANGED << expandvars, pipe, call, df, pc, result, err, alignvars >>

\* Lines 668-678: the new frame beside the old one.
matchSeqs_return ==
    /\ pc = "loop"
    /\ call.fn = "matchSeqs"
    /\ Len(ms) = NRows(df)
    /\ pc' = "returned"
    /\ result' = concat(match_newcols, match_dup_cols, match_d)
    /\ UNCHANGED << expandvars, pipe, call, df, match_d, ms, err, alignvars >>

(***************************************************************************)
(* alignSeqs(df, mapper, query_col, aligned_col, *, add_alignment=True,     *)
(*           add_target=True, add_cigar=True, add_n_trimmed=True,           *)
(*           add_n_additional=True, add_n_additional_difftarget=True,       *)
(*           targetvariants=None, mutationcaller=None, overwrite=True,      *)
(*           paf_file=None)                                                 *)
(***************************************************************************)
\* An alignment of dms_tools2.minimap2: the fields alignSeqs reads.
\* additional holds the targets of the secondary alignments.
Alignment(target, strand, q_st, q_en, q_len, r_st, r_en, r_len, cigar_str, additional) ==
    [target |-> target, strand |-> strand, q_st |-> q_st, q_en |-> q_en,
     q_len |-> q_len, r_st |-> r_st, r_en |-> r_en, r_len |-> r_len,
     cigar_str |-> cigar_str, additional |-> additional]

\* End to end, no other hit.
AlnFull == Alignment("T1", 1, 0, 3, 3, 0, 3, 3, "=ACG", << >>)

\* Trimmed at both ends of query and target, with secondary hits.
AlnTrimmed == Alignment("T1", 1, 1, 3, 3, 2, 4, 5, "=CG", << "T1", "T1b", "T2" >>)

\* On the minus strand.
AlnMinus == Alignment("T2", -1, 0, 3, 3, 0, 3, 3, "=CGT", << >>)

Alignments == {AlnFull, AlnTrimmed, AlnMinus}

\* Python's None in the alignment column.
NoAlignment == [none |-> TRUE]

\* mapper.target_isoforms[target]: the isoform group of the target, the
\* targets declared equivalent to it, itself among them.
target_isoforms(target) ==
    IF target \in {"T1", "T1b"} THEN {"T1", "T1b"} ELSE {target}

\* targetvariants.call(a, qvals): the variant and the adjusted alignment.
targetvariants_call(a) ==
    IF a.q_st > 0
    THEN [variant |-> "variant1",
          a |-> [a EXCEPT !.cigar_str = "*" \o a.cigar_str, !.q_st = a.q_st - 1]]
    ELSE [variant |-> "", a |-> a]

\* mutationcaller.call(a)
mutationcaller_call(a) ==
    [substitutions |-> << a.cigar_str >>, insertions |-> << >>,
     deletions |-> << a.target >>]

mut_types == << "substitutions", "insertions", "deletions" >>

TrimSuffixes == << "query_start", "query_end", "target_start", "target_end" >>

NewColIf(flag, name, kind) ==
    IF flag THEN << [name |-> name, kind |-> kind, group |-> ""] >> ELSE << >>

\* newcols, each with what it holds.
align_newcols ==
    << [name |-> call.aligned_col, kind |-> "aligned", group |-> ""] >>
    \o NewColIf(call.add_alignment, call.aligned_col \o "_alignment", "alignment")
    \o NewColIf(call.add_target, call.aligned_col \o "_target", "target")
    \o NewColIf(call.add_cigar, call.aligned_col \o "_cigar", "cigar")
    \o (IF call.add_n_trimmed
        THEN [k \in 1..4 |->
                [name |-> call.aligned_col \o "_n_trimmed_" \o TrimSuffixes[k],
                 kind |-> TrimSuffixes[k], group |-> ""]]
        ELSE << >>)
    \o NewColIf(call.add_n_additional, call.aligned_col \o "_n_additional",
                "n_additional")
    \o NewColIf(call.add_n_additional_difftarget,
                call.aligned_col \o "_n_additional_difftarget",
                "n_additional_difftarget")
    \o NewColIf(call.targetvariants # "None", call.aligned_col \o "_target_variant",
                "target_variant")
    \o (IF call.mutationcaller # "None"
        THEN [k \in 1..3 |->
                [name |-> call.aligned_col \o "_" \o mut_types[k],
                 kind |-> mut_types[k], group |-> ""]]
        ELSE << >>)

align_qvals_col == call.query_col \o "_qvals"

\* Whether the dict qvals is built (lines 832-839).
qvals_bound == call.targetvariants = "min_acc"

align_dup_cols == NewColNames(align_newcols) \cap Columns(df)

\* The checks before the mapping without the one of the names.
align_precheck_names_unchecked ==
    IF call.query_col \notin Columns(df) THEN "AssertionError: no query_col"
    ELSE IF qvals_bound /\ align_qvals_col \notin Columns(df)
    THEN "ValueError: no qvals column"
    ELSE IF ~Overwrite(TRUE) /\ align_dup_cols # {}
    THEN "ValueError: columns exist"
    ELSE ""

\* The exception raised before the mapping ("" when none).
align_precheck ==
    IF call.query_col \notin Columns(df) THEN "AssertionError: no query_col"
    ELSE IF qvals_bound /\ align_qvals_col \notin Columns(df)
    THEN "ValueError: no qvals column"
    ELSE IF ~Overwrite(TRUE) /\ align_dup_cols # {}
    THEN "ValueError: columns exist"
    ELSE IF Cardinality(Range(Col(df, "name"))) # NRows(df)
    THEN "AssertionError: name not unique"
    ELSE ""

\* A query file with a record for every row, also for the empty queries.
QueryRecords_all ==
    [r \in 1..NRows(df) |-> << Col(df, "name")[r], Col(df, call.query_col)[r] >>]

\* The records of the query file: df.query('query_col != ""')[['name', query_col]]
QueryRecords ==
    LET rows == SelectSeq([r \in 1..NRows(df) |-> r],
                          LAMBDA r : Col(df, call.query_col)[r] # << >>)
    IN  [k \in 1..Len(rows) |->
            << Col(df, "name")[rows[k]], Col(df, call.query_col)[rows[k]] >>]

NoFile == [state |-> "none", written |-> << >>, disk |-> << >>]

\* The locals of one aligned row: the alignment after the variant hook, the
\* variant, the mutations, and the exception if one is raised.
\* calls lists the hooks called for the row, each with the alignment passed.
HookCall(hook, a) == [hook |-> hook, a |-> a]

\* An aligned row that passes on whatever strand the alignment has.
AlignedRow_any_strand(a0) ==
    IF call.targetvariants # "None" /\ ~qvals_bound
    THEN [err |-> "NameError: qvals", a |-> a0, variant |-> "",
          muts |-> mutationcaller_call(a0), calls |-> << >>]
    ELSE LET tv == IF call.targetvariants # "None" THEN targetvariants_call(a0)
                   ELSE [variant |-> "", a |-> a0]
         IN  [err |-> "", a |-> tv.a, variant |-> tv.variant,
              muts |-> mutationcaller_call(tv.a),
              calls |-> (IF call.targetvariants # "None"
                         THEN << HookCall("targetvariants", a0) >> ELSE << >>)
                        \o (IF call.mutationcaller # "None"
                            THEN << HookCall("mutationcaller", tv.a) >> ELSE << >>)]

\* An aligned row that calls the mutations before the variant.
AlignedRow_mutations_first(a0) ==
    IF a0.strand # 1
    THEN [err |-> "AssertionError: method does not handle - polarity", a |-> a0,
          variant |-> "", muts |-> mutationcaller_call(a0), calls |-> << >>]
    ELSE IF call.targetvariants # "None" /\ ~qvals_bound
    THEN [err |-> "NameError: qvals", a |-> a0, variant |-> "",
          muts |-> mutationcaller_call(a0), calls |-> << >>]
    ELSE LET tv == IF call.targetvariants # "None" THEN targetvariants_call(a0)
                   ELSE [variant |-> "", a |-> a0]
         IN  [err |-> "", a |-> tv.a, variant |-> tv.variant,
              muts |-> mutationcaller_call(a0),
              calls |-> (IF call.mutationcaller # "None"
                         THEN << HookCall("mutationcaller", a0) >> ELSE << >>)
                        \o (IF call.targetvariants # "None"
                            THEN << HookCall("targetvariants", a0) >> ELSE << >>)]

AlignedRow(a0) ==
    IF a0.strand # 1
    THEN [err |-> "AssertionError: method does not handle - polarity", a |-> a0,
          variant |-> "", muts |-> mutationcaller_call(a0), calls |-> << >>]
    ELSE IF call.targetvariants # "None" /\ ~qvals_bound
    THEN [err |-> "NameError: qvals", a |-> a0, variant |-> "",
          muts |-> mutationcaller_call(a0), calls |-> << >>]
    ELSE LET tv == IF call.targetvariants # "None" THEN targetvariants_call(a0)
                   ELSE [variant |-> "", a |-> a0]
         IN  [err |-> "", a |-> tv.a, variant |-> tv.variant,
              muts |-> mutationcaller_call(tv.a),
              calls |-> (IF call.targetvariants # "None"
                         THEN << HookCall("targetvariants", a0) >> ELSE << >>)
                        \o (IF call.mutationcaller # "None"
                            THEN << HookCall("mutationcaller", tv.a) >> ELSE << >>)]

\* An aligned row whose end trims are the end offsets.
AlignedCell_end_offsets(c, row) ==
    LET a == row.a
    IN  CASE c.kind = "aligned" -> TRUE
          [] c.kind = "alignment" -> a
          [] c.kind = "target" -> a.target
          [] c.kind = "cigar" -> a.cigar_str
          [] c.kind = "query_start" -> a.q_st
          [] c.kind = "query_end" -> a.q_en
          [] c.kind = "target_start" -> a.r_st
          [] c.kind = "target_end" -> a.r_en
          [] c.kind = "n_additional" -> Len(a.additional)
          [] c.kind = "n_additional_difftarget" ->
                Len(SelectSeq(a.additional,
                              LAMBDA t : t \notin target_isoforms(a.target)))
          [] c.kind = "target_variant" -> row.variant
          [] c.kind = "substitutions" -> row.muts.substitutions
          [] c.kind = "insertions" -> row.muts.insertions
          [] c.kind = "deletions" -> row.muts.deletions

\* An aligned row that counts every secondary hit on a target of another
\* name, isoform or not.
AlignedCell_other_names(c, row) ==
    LET a == row.a
    IN  CASE c.kind = "aligned" -> TRUE
          [] c.kind = "alignment" -> a
          [] c.kind = "target" -> a.target
          [] c.kind = "cigar" -> a.cigar_str
          [] c.kind = "query_start" -> a.q_st
          [] c.kind = "query_end" -> a.q_len - a.q_en
          [] c.kind = "target_start" -> a.r_st
          [] c.kind = "target_end" -> a.r_len - a.r_en
          [] c.kind = "n_additional" -> Len(a.additional)
          [] c.kind = "n_additional_difftarget" ->
                Len(SelectSeq(a.additional,
                              LAMBDA t : t # a.target))
          [] c.kind = "target_variant" -> row.variant
          [] c.kind = "substitutions" -> row.muts.substitutions
          [] c.kind = "insertions" -> row.muts.insertions
          [] c.kind = "deletions" -> row.muts.deletions

\* What an aligned row appends to new column c.
AlignedCell(c, row) ==
    LET a == row.a
    IN  CASE c.kind = "aligned" -> TRUE
          [] c.kind = "alignment" -> a
          [] c.kind = "target" -> a.target
          [] c.kind = "cigar" -> a.cigar_str
          [] c.kind = "query_start" -> a.q_st
          [] c.kind = "query_end" -> a.q_len - a.q_en
          [] c.kind = "target_start" -> a.r_st
          [] c.kind = "target_end" -> a.r_len - a.r_en
          [] c.kind = "n_additional" -> Len(a.additional)
          [] c.kind = "n_additional_difftarget" ->
                Len(SelectSeq(a.additional,
                              LAMBDA t : t \notin target_isoforms(a.target)))
          [] c.kind = "target_variant" -> row.variant
          [] c.kind = "substitutions" -> row.muts.substitutions
          [] c.kind = "insertions" -> row.muts.insertions
          [] c.kind = "deletions" -> row.muts.deletions

\* Unaligned rows with 0 in place of -1 in the counts.
UnalignedCell_zero(c) ==
    CASE c.kind = "aligned" -> FALSE
      [] c.kind = "alignment" -> NoAlignment
      [] c.kind \in {"target", "cigar", "target_variant"} -> ""
      [] c.kind \in Range(TrimSuffixes) -> 0
      [] c.kind \in {"n_additional", "n_additional_difftarget"} -> 0
      [] c.kind \in Range(mut_types) -> << >>

\* What a row without an alignment appends to new column c.
UnalignedCell(c) ==
    CASE c.kind = "aligned" -> FALSE
      [] c.kind = "alignment" -> NoAlignment
      [] c.kind \in {"target", "cigar", "target_variant"} -> ""
      [] c.kind \in Range(TrimSuffixes) -> -1
      [] c.kind \in {"n_additional", "n_additional_difftarget"} -> -1
      [] c.kind \in Range(mut_types) -> << >>

\* Lines 805-854: the new columns and the checks.
alignSeqs_begin ==
    /\ pc = "call"
    /\ call.fn = "alignSeqs"
    /\ IF align_precheck # ""
       THEN /\ pc' = "raised"
            /\ err' = align_precheck
       ELSE /\ pc' = "write"
            /\ UNCHANGED err
    /\ UNCHANGED << expandvars, pipe, call, df, matchvars, alignvars, result >>

\* Lines 855-861: the queries are written to the temporary file.  Nothing
\* flushes the file: what the file holds by name is what the io buffer has
\* passed on, some prefix of what was written.
alignSeqs_write ==
    /\ pc = "write"
    /\ \E k \in 0..Len(QueryRecords) :
          queryfile' = [state |-> "open", written |-> QueryRecords,
                        disk |-> SubSeq(QueryRecords, 1, k)]
    /\ pc' = "map"
    /\ UNCHANGED << expandvars, pipe, call, df, matchvars, align_d, map_dict,
                    maps, hooks,
                    result, err >>

\* mapper.map(queryfile.name): an alignment for some of the queries it reads.
mapper_map(disk) ==
    LET ids == {disk[k][1] : k \in DOMAIN disk}
    IN  UNION {[found -> Alignments] : found \in SUBSET ids}

\* Lines 862-864: the aligner runs on the file, the file is closed.
alignSeqs_map ==
    /\ pc = "map"
    /\ map_dict' \in mapper_map(queryfile.disk)
    /\ maps' = Append(maps, queryfile.disk)
    /\ queryfile' = [queryfile EXCEPT !.state = "closed"]
    /\ align_d' = [c \in NewColNames(align_newcols) |-> << >>]
    /\ pc' = "loop"
    /\ UNCHANGED << expandvars, pipe, call, df, matchvars, hooks, result, err >>

RowsDone == Len(align_d[call.aligned_col])

\* Lines 865-920: one pass of the loop over df.name.
alignSeqs_row ==
    /\ pc = "loop"
    /\ call.fn = "alignSeqs"
    /\ RowsDone < NRows(df)
    /\ LET name == Col(df, "name")[RowsDone + 1]
       IN  IF name \in DOMAIN map_dict
           THEN LET row == AlignedRow(map_dict[name])
                IN  IF row.err # ""
                    THEN /\ pc' = "raised"
                         /\ err' = row.err
                         /\ UNCHANGED << align_d, hooks >>
                    ELSE /\ align_d' =
                              [c \in DOMAIN align_d |->
                                  Append(align_d[c],
                                         AlignedCell(NewCol(align_newcols, c), row))]
                         /\ hooks' = hooks \o
                              [k \in 1..Len(row.calls) |->
                                  [hook |-> row.calls[k].hook, a |-> row.calls[k].a,
                                   row |-> RowsDone + 1]]
                         /\ UNCHANGED << pc, err >>
           ELSE /\ align_d' =
                     [c \in DOMAIN align_d |->
                         Append(align_d[c], UnalignedCell(NewCol(align_newcols, c)))]
                /\ UNCHANGED << pc, err, hooks >>
    /\ UNCHANGED << expandvars, pipe, call, df, matchvars, queryfile, map_dict,
                    maps, result >>

\* Lines 922-932: the new frame beside the old one.
alignSeqs_return ==
    /\ pc = "loop"
    /\ call.fn = "alignSeqs"
    /\ RowsDone = NRows(df)
    /\ pc' = "returned"
    /\ result' = concat(align_newcols, align_dup_cols, align_d)
    /\ UNCHANGED << expandvars, pipe, call, df, matchvars, alignvars, err >>

(***************************************************************************)
(* matchAndAlignCCS(ccslist, mapper, *, termini5, gene, spacer, umi,        *)
(*                  barcode, termini3, targetvariants=None,                 *)
(*                  mutationcaller=None, rc_barcode_umi=True)               *)
(* The function pipes one table through four calls of matchSeqs and three   *)
(* of alignSeqs; each of them runs as the actions above, on the table the   *)
(* call before it returned.                                                 *)
(***************************************************************************)
\* An argument termini5, gene, ...: the character nt repeated lo..hi times.
PipeArg(nt, lo, hi) == [nt |-> nt, lo |-> lo, hi |-> hi]

\* Python's None for such an argument.
NoArg == [none |-> TRUE]

InPipe == pipe.fn = "matchAndAlignCCS"

\* '(?P<name>{0})'.format(arg), or nothing for None.
GroupOf(name, arg) ==
    IF arg = NoArg THEN << >> ELSE << Atom(name, arg.nt, arg.lo, arg.hi) >>

\* Lines 421-433: match_str.
pipe_match_str ==
    GroupOf("termini5", pipe.termini5) \o GroupOf("gene", pipe.gene)
    \o GroupOf("spacer", pipe.spacer) \o GroupOf("UMI", pipe.umi)
    \o GroupOf("barcode", pipe.barcode) \o GroupOf("termini3", pipe.termini3)

\* The argument itself as a pattern (match_str=termini5 and the like).
PlainOf(arg) ==
    IF arg = NoArg THEN NoPattern ELSE << Atom("", arg.nt, arg.lo, arg.hi) >>

\* Lines 445-463: matchSeqs looking for one part only.
HasCall(arg, match_col) ==
    [fn |-> "matchSeqs", match_str |-> PlainOf(arg), col_to_match |-> "CCS",
     match_col |-> match_col, add_polarity |-> FALSE, add_group_cols |-> FALSE,
     add_accuracy |-> TRUE, add_qvals |-> TRUE, expandIUPAC |-> TRUE,
     overwrite |-> "omitted"]

\* alignSeqs with every flag at its default.
AlignCall(query_col, aligned_col, tv, mc) ==
    [fn |-> "alignSeqs", query_col |-> query_col, aligned_col |-> aligned_col,
     add_alignment |-> TRUE, add_target |-> TRUE, add_cigar |-> TRUE,
     add_n_trimmed |-> TRUE, add_n_additional |-> TRUE,
     add_n_additional_difftarget |-> TRUE,
     targetvariants |-> tv, mutationcaller |-> mc, overwrite |-> "omitted"]

LastStage == 7

\* The calls of the pipe, in order (lines 436-471 and 398-406).
StageCall(k) ==
    CASE k = 1 ->
            [fn |-> "matchSeqs", match_str |-> pipe_match_str,
             col_to_match |-> "CCS", match_col |-> "barcoded",
             add_polarity |-> TRUE, add_group_cols |-> TRUE,
             add_accuracy |-> TRUE, add_qvals |-> TRUE, expandIUPAC |-> TRUE,
             overwrite |-> "omitted"]
      [] k = 2 -> HasCall(pipe.termini5, "has_termini5")
      [] k = 3 -> HasCall(pipe.termini3, "has_termini3")
      [] k = 4 -> HasCall(pipe.spacer, "has_spacer")
      [] k = 5 -> AlignCall("gene", "gene_aligned", pipe.targetvariants,
                            pipe.mutationcaller)
      [] k = 6 -> AlignCall("CCS", "CCS_for_aligned", "None", "None")
      [] k = 7 -> AlignCall("CCS_rev", "CCS_rev_aligned", "None", "None")

\* The table a call returned, as the argument df of the next call.
AsInput(t) ==
    [obj |-> "df", cols |-> [k \in DOMAIN t.cols |-> [t.cols[k] EXCEPT !.src = "df"]]]

\* pandas.concat(tables): the rows of the tables one after the other.
RECURSIVE concat_rows(_)
concat_rows(tables) ==
    IF Len(tables) = 1
    THEN [obj |-> "new", cols |-> tables[1].cols]
    ELSE LET front == concat_rows(SubSeq(tables, 1, Len(tables) - 1))
             last == tables[Len(tables)]
         IN  [obj |-> "new",
              cols |-> [k \in DOMAIN front.cols |->
                          [front.cols[k] EXCEPT
                              !.vals = @ \o Col(last, front.cols[k].name)]]]

\* df.assign(name=vals): a new frame with the column set or added.
assign(t, name, vals) ==
    [obj |-> "new",
     cols |-> IF name \in Columns(t)
              THEN [k \in DOMAIN t.cols |->
                      IF t.cols[k].name = name
                      THEN Column(name, vals, "new") ELSE t.cols[k]]
              ELSE Append(t.cols, Column(name, vals, "new"))]

\* df.name = vals: the column set in the frame itself.
set_column(t, name, vals) ==
    [t EXCEPT !.cols = [k \in DOMAIN t.cols |->
                          IF t.cols[k].name = name
                          THEN [t.cols[k] EXCEPT !.vals = vals] ELSE t.cols[k]]]

\* A where that takes the other value whenever there is one.
where_other(cond, x, other) == IF other # NoAlignment THEN other ELSE x

\* Series.where(cond, other), row by row.
where(cond, x, other) == IF cond THEN x ELSE other

\* Lines 407-419: the three CCS_aligned columns set on df from df_bi.
BothOrientations(saved, df_bi) ==
    LET rows == 1..NRows(saved)
        aligned == [r \in rows |-> Col(df_bi, "CCS_for_aligned")[r]
                                   \/ Col(df_bi, "CCS_rev_aligned")[r]]
        alignment == [r \in rows |->
                        where(Col(df_bi, "CCS_for_aligned")[r],
                              Col(df_bi, "CCS_for_aligned_alignment")[r],
                              Col(df_bi, "CCS_rev_aligned_alignment")[r])]
        target == [r \in rows |-> IF alignment[r] = NoAlignment THEN ""
                                  ELSE alignment[r].target]
    IN  assign(assign(assign(saved, "CCS_aligned", aligned),
                      "CCS_aligned_alignment", alignment),
               "CCS_aligned_target", target)

\* Lines 478-484: barcode and UMI reverse-complemented in the frame.
rc_barcode_umi(t) ==
    LET rc(name) == [r \in 1..NRows(t) |-> reverseComplement(Col(t, name)[r])]
        t1 == IF pipe.barcode # NoArg THEN set_column(t, "barcode", rc("barcode"))
              ELSE t
    IN  IF pipe.umi # NoArg
        THEN set_column(t1, "UMI",
                        [r \in 1..NRows(t) |-> reverseComplement(Col(t1, "UMI")[r])])
        ELSE t1

\* Lines 386-392: df is the frames of ccslist concatenated, or the frame of
\* the one CCS itself; then the first call of the pipe.
matchAndAlignCCS_begin ==
    /\ InPipe
    /\ pc = "call"
    /\ call.fn = "matchAndAlignCCS"
    /\ IF pipe.iterable
          /\ \E k \in DOMAIN pipe.ccslist :
                [j \in DOMAIN pipe.ccslist[k].cols |-> pipe.ccslist[k].cols[j].name]
                # [j \in DOMAIN pipe.ccslist[1].cols |-> pipe.ccslist[1].cols[j].name]
       THEN /\ pc' = "raised"
            /\ err' = "AssertionError: the CCS.df's don't have same columns"
            /\ UNCHANGED << call, df, pipe >>
       ELSE /\ df' = IF pipe.iterable THEN AsInput(concat_rows(pipe.ccslist))
                     ELSE AsInput(pipe.ccslist[1])
            /\ pipe' = [pipe EXCEPT !.stage = 1, !.alias = ~pipe.iterable]
            /\ call' = StageCall(1)
            /\ UNCHANGED << pc, err >>
    /\ UNCHANGED << expandvars, matchvars, alignvars, result >>

\* One call of the pipe has returned: its table goes to the next call
\* (with the column CCS_rev added before the last one, line 402).
matchAndAlignCCS_next ==
    /\ InPipe
    /\ pc = "returned"
    /\ pipe.stage < LastStage
    /\ LET k == pipe.stage + 1
           same == result.obj = "df"
           t == AsInput(result)
       IN  /\ df' = IF k = 7
                    THEN AsInput(assign(t, "CCS_rev",
                            [r \in 1..NRows(t) |->
                                reverseComplement(Col(t, "CCS")[r])]))
                    ELSE t
           /\ pipe' = [pipe EXCEPT
                         !.stage = k,
                         !.alias = pipe.alias /\ same /\ k # 7,
                         !.saved = IF k = 6 THEN t ELSE @,
                         !.saved_alias = IF k = 6 THEN pipe.alias /\ same ELSE @,
                         !.for_map = IF k = 7 THEN map_dict ELSE @]
           /\ call' = StageCall(k)
    /\ pc' = "call"
    /\ match_d' = << >>
    /\ ms' = << >>
    /\ align_d' = << >>
    /\ queryfile' = NoFile
    /\ map_dict' = << >>
    /\ maps' = << >>
    /\ hooks' = << >>
    /\ result' = NoTable
    /\ UNCHANGED << expandvars, err >>

\* Lines 407-419 and 477-486: the last call has returned; the CCS_aligned
\* columns, the reverse complement of barcode and UMI, the return.
matchAndAlignCCS_return ==
    /\ InPipe
    /\ pc = "returned"
    /\ pipe.stage = LastStage
    /\ LET final == BothOrientations(pipe.saved, result)
           same == pipe.saved_alias /\ final.obj = pipe.saved.obj
           out == IF pipe.rc_barcode_umi THEN rc_barcode_umi(final) ELSE final
       IN  pipe' = [pipe EXCEPT
                      !.final = final,
                      !.out = out,
                      !.ccs_now = IF same THEN << out >> ELSE @]
    /\ pc' = "done"
    /\ UNCHANGED << expandvars, call, df, matchvars, alignvars, result, err >>

(***************************************************************************)
(* The calls of the model                                                   *)
(***************************************************************************)
\* The caller's table: a read and its reverse complement (the plus and the
\* minus read of the CCS doctest), with or without the Q-values, and perhaps
\* a column left by an earlier call.
ReadTable(s, hasq, pre) ==
    LET reads == << s, reverseComplement(s) >>
        n == Len(reads)
    IN  [obj |-> "df",
         cols |->
            << Column("name", << "r1", "r2" >>, "df"),
               Column("CCS", reads, "df") >>
            \o (IF hasq
                THEN << Column("CCS_qvals", [k \in 1..n |-> Ramp(Len(reads[k]))], "df") >>
                ELSE << >>)
            \o << Column("passes", [k \in 1..n |-> 6], "df") >>
            \o (IF pre = "" THEN << >>
                ELSE << Column(pre, [k \in 1..n |-> "stale"], "df") >>)]

\* hasq, pre
Schemas ==
    { << TRUE, "" >>, << FALSE, "" >>, << TRUE, "barcoded" >>,
      << TRUE, "barcode_accuracy" >> }

\* overwrite: left out, or passed.  It is passed only to tables that hold a
\* column of an earlier call; on the others it changes nothing.
OverwriteArgs == {"omitted", "True", "False"}

MatchCalls ==
    [fn : {"matchSeqs"}, match_str : Patterns \cup {NoPattern},
     col_to_match : {"CCS"}, match_col : {"barcoded"},
     add_polarity : BOOLEAN, add_group_cols : BOOLEAN,
     add_accuracy : BOOLEAN, add_qvals : BOOLEAN,
     expandIUPAC : {TRUE}, overwrite : OverwriteArgs]

\* The table alignSeqs is given: two rows, named alike or not, each with a
\* gene or with none, with or without the Q-values, and perhaps a column
\* left by an earlier call.
GeneTable(names, genes, hasq, pre) ==
    [obj |-> "df",
     cols |->
        << Column("name", names, "df"), Column("gene", genes, "df") >>
        \o (IF hasq
            THEN << Column("gene_qvals", [k \in 1..2 |-> Ramp(Len(genes[k]))], "df") >>
            ELSE << >>)
        \o << Column("passes", << 6, 6 >>, "df") >>
        \o (IF pre = "" THEN << >> ELSE << Column(pre, << "stale", "stale" >>, "df") >>)]

Genes == {<< >>, << "A", "C", "G" >>}

AlignSchemas == { << TRUE, "" >>, << FALSE, "" >>, << TRUE, "gene_aligned" >> }

\* The six add_... flags: all set, none set, or all but one set.
AlignFlags ==
    {f \in [1..6 -> BOOLEAN] :
        Cardinality({k \in 1..6 : f[k]}) \in {0, 5, 6}}

AlignCalls ==
    {[fn |-> "alignSeqs", query_col |-> "gene", aligned_col |-> "gene_aligned",
      add_alignment |-> f[1], add_target |-> f[2], add_cigar |-> f[3],
      add_n_trimmed |-> f[4], add_n_additional |-> f[5],
      add_n_additional_difftarget |-> f[6],
      targetvariants |-> tv, mutationcaller |-> mc, overwrite |-> ow] :
        f \in AlignFlags, tv \in {"None", "min_acc_None", "min_acc"},
        mc \in {"None", "mutationcaller"}, ow \in OverwriteArgs}

\* The frame of a CCS object: name, CCS and CCS_qvals.
CCSdf(names, reads) ==
    [obj |-> "df",
     cols |-> << Column("name", names, "df"), Column("CCS", reads, "df"),
                 Column("CCS_qvals", [k \in 1..Len(reads) |-> Ramp(Len(reads[k]))],
                        "df") >>]

\* A read with all the parts, its reverse complement, a read with none.
ReadFwd == << "A", "G", "C", "T", "G", "A", "C" >>

ReadRev == reverseComplement(ReadFwd)

ReadNone == << "T", "T", "T", "T", "T", "T", "T" >>

\* ccslist: one CCS object, or a list of two (with one read id twice, with
\* different ids, with different columns).
PipeInputs ==
    {[iterable |-> FALSE, ccslist |-> << CCSdf(<< "r1" >>, << s >>) >>] :
        s \in {ReadFwd, ReadRev, ReadNone}}
    \cup
    {[iterable |-> TRUE,
      ccslist |-> << CCSdf(<< "r1" >>, << ReadFwd >>), CCSdf(<< n >>, << s >>) >>] :
        n \in {"r1", "r2"}, s \in {ReadNone}}
    \cup
    {[iterable |-> TRUE,
      ccslist |-> << CCSdf(<< "r1" >>, << ReadFwd >>),
                     [obj |-> "df",
                      cols |-> << Column("name", << "r2" >>, "df"),
                                  Column("CCS", << ReadRev >>, "df") >>] >>]}

\* termini5 + gene + UMI + barcode + termini3, and gene + spacer + barcode.
ArgsFull ==
    [termini5 |-> PipeArg("A", 1, 1), gene |-> PipeArg("N", 1, -1), spacer |-> NoArg,
     umi |-> PipeArg("N", 2, 2), barcode |-> PipeArg("N", 2, 2),
     termini3 |-> PipeArg("C", 1, 1)]

ArgsBare ==
    [termini5 |-> NoArg, gene |-> PipeArg("N", 1, -1), spacer |-> PipeArg("G", 1, 1),
     umi |-> NoArg, barcode |-> PipeArg("N", 2, 2), termini3 |-> NoArg]

\* targetvariants, mutationcaller
PipeHooks == { << "None", "None" >>, << "min_acc", "mutationcaller" >> }

\* The calls of matchAndAlignCCS, with the locals as they are on entry.
\* The list of two frames that gets through to the aligner is called
\* with one set of arguments.
PipeCalls ==
    {[fn |-> "matchAndAlignCCS", iterable |-> in.iterable, ccslist |-> in.ccslist,
      termini5 |-> a.termini5, gene |-> a.gene, spacer |-> a.spacer, umi |-> a.umi,
      barcode |-> a.barcode, termini3 |-> a.termini3,
      targetvariants |-> h[1], mutationcaller |-> h[2], rc_barcode_umi |-> rc,
      stage |-> 0, alias |-> FALSE, saved |-> NoTable, saved_alias |-> FALSE,
      for_map |-> << >>, final |-> NoTable, out |-> NoTable,
      ccs_now |-> in.ccslist] :
        in \in PipeInputs, a \in {ArgsFull, ArgsBare}, h \in PipeHooks,
        rc \in BOOLEAN}

Init ==
    /\ \/ /\ call \in MatchCalls
          /\ \E s \in Seqs(MaxLen), sch \in Schemas :
                /\ df = ReadTable(s, sch[1], sch[2])
                /\ sch[2] = "" => call.overwrite = "omitted"
          /\ pipe = NoPipe
       \/ /\ call \in AlignCalls
          /\ \E names \in {<< "r1", "r2" >>, << "r1", "r1" >>},
                g1 \in Genes, g2 \in Genes, sch \in AlignSchemas :
                /\ df = GeneTable(names, << g1, g2 >>, sch[1], sch[2])
                /\ sch[2] = "" => call.overwrite = "omitted"
          /\ pipe = NoPipe
       \/ /\ pipe \in PipeCalls
          /\ call = [fn |-> "matchAndAlignCCS"]
          /\ df = NoTable
    /\ pc = "call"
    /\ match_d = << >>
    /\ ms = << >>
    /\ align_d = << >>
    /\ queryfile = NoFile
    /\ map_dict = << >>
    /\ maps = << >>
    /\ result = NoTable
    /\ err = ""
    /\ hooks = << >>
    /\ groupname_indices = {}
    /\ new_re_str = << >>

Next ==
    \/ matchSeqs_begin
    \/ matchSeqs_row
    \/ matchSeqs_return
    \/ alignSeqs_begin
    \/ alignSeqs_write
    \/ alignSeqs_map
    \/ alignSeqs_row
    \/ alignSeqs_return
    \/ matchAndAlignCCS_begin
    \/ matchAndAlignCCS_next
    \/ matchAndAlignCCS_return

Spec == Init /\ [][Next]_vars

(***************************************************************************)
(* re_expandIUPAC(re_str), character by character                           *)
(*                                                                         *)
(* A string is a sequence of one-character strings; indices are Python's    *)
(* plus one.                                                                *)
(***************************************************************************)
\* The longest pattern string, in pieces of PatternPieces.
MaxPieces == 4

\* dms_tools2.NT_TO_REGEXP as strings: an unambiguous nucleotide maps to
\* itself, an ambiguous code to its bracketed class; "" when c is no key.
NT_TO_REGEXP_str(c) ==
    CASE c = "A" -> << "A" >>
      [] c = "C" -> << "C" >>
      [] c = "G" -> << "G" >>
      [] c = "T" -> << "T" >>
      [] c = "S" -> << "[", "C", "G", "]" >>
      [] c = "N" -> << "[", "A", "C", "G", "T", "]" >>
      [] OTHER -> << >>

RECURSIVE join(_)
join(pieces) ==
    IF Len(pieces) = 0 THEN << >> ELSE Head(pieces) \o join(Tail(pieces))

\* What the pattern strings of the model are made of: a whole group name
\* marker, its first four characters, a back-reference to the group, two
\* ambiguous codes, a nucleotide, and five characters of regex syntax.
PatternPieces ==
    { << "(", "?", "P", "<", "N", ">" >>,
      << "(", "?", "P", "<" >>,
      << "(", "?", "P", "=", "N", ")" >>,
      << "N" >>, << "S" >>, << "A" >>,
      << ">" >>, << ")" >>, << "\\" >>, << "+" >> }

ReStrs == UNION {{join(f) : f \in [1..k -> PatternPieces]} : k \in 0..MaxPieces}

\* The first index from i on that holds ">", 0 when there is none: where
\* [^>]*> ends.
FirstClose(s, i) ==
    IF \E j \in i..Len(s) : s[j] = ">"
    THEN CHOOSE j \in i..Len(s) : s[j] = ">" /\ \A h \in i..(j - 1) : s[h] # ">"
    ELSE 0

finditer_unprotected(s, i) == << >>

\* groupname_matcher.finditer(re_str) for '\(\?P<[^>]*>', from index i: the
\* matches from left to right, none overlapping another.
RECURSIVE finditer(_, _)
finditer(s, i) ==
    IF i + 4 > Len(s) THEN << >>
    ELSE IF SubSeq(s, i, i + 3) = << "(", "?", "P", "<" >>
            /\ FirstClose(s, i + 4) # 0
         THEN << [start |-> i, end |-> FirstClose(s, i + 4)] >>
              \o finditer(s, FirstClose(s, i + 4) + 1)
         ELSE finditer(s, i + 1)

InExpand == call.fn = "re_expandIUPAC"

\* Lines 1072-1076: the indices of every match of groupname_matcher.
re_expandIUPAC_groupnames ==
    /\ InExpand
    /\ pc = "call"
    /\ LET found == finditer(call.re_str, 1)
       IN  groupname_indices' =
               UNION {found[k].start..found[k].end : k \in DOMAIN found}
    /\ pc' = "loop"
    /\ UNCHANGED << new_re_str, pipe, call, df, matchvars, alignvars, result,
                    err >>

\* Lines 1079-1086: every character that is a key of NT_TO_REGEXP and not
\* at an index of groupname_indices is replaced; the pieces are joined.
re_expandIUPAC_replace ==
    /\ InExpand
    /\ pc = "loop"
    /\ LET s == call.re_str
           out == [i \in 1..Len(s) |->
                     IF i \notin groupname_indices
                        /\ NT_TO_REGEXP_str(s[i]) # << >>
                     THEN NT_TO_REGEXP_str(s[i])
                     ELSE << s[i] >>]
       IN  /\ new_re_str' = out
           /\ result' = join(out)
    /\ pc' = "returned"
    /\ UNCHANGED << groupname_indices, pipe, call, df, matchvars, alignvars,
                    err >>

InitExpand ==
    /\ \E s \in ReStrs : call = [fn |-> "re_expandIUPAC", re_str |-> s]
    /\ df = NoTable
    /\ pipe = NoPipe
    /\ pc = "call"
    /\ match_d = << >>
    /\ ms = << >>
    /\ align_d = << >>
    /\ queryfile = NoFile
    /\ map_dict = << >>
    /\ maps = << >>
    /\ result = << >>
    /\ err = ""
    /\ hooks = << >>
    /\ groupname_indices = {}
    /\ new_re_str = << >>

NextExpand ==
    \/ re_expandIUPAC_groupnames
    \/ re_expandIUPAC_replace

SpecExpand == InitExpand /\ [][NextExpand]_vars

(***************************************************************************)
(* The properties                                                           *)
(***************************************************************************)
\* The offsets a match of atoms k.. can end at when it starts in P: regex
\* acceptance stated without the order in which search tries the matches.
RECURSIVE Reach(_, _, _, _)
Reach(atoms, k, s, P) ==
    IF k > Len(atoms)
    THEN P
    ELSE Reach(atoms, k + 1, s,
               {p + n : p \in P, n \in 0..Len(s)} \cap
               {e \in 0..Len(s) :
                   \E p \in P :
                       /\ e - p >= atoms[k].lo
                       /\ atoms[k].hi = -1 \/ e - p <= atoms[k].hi
                       /\ \A j \in (p + 1)..e : s[j] \in atoms[k].cls})

\* Some substring of s matches the pattern.
Accepts(atoms, s) == Reach(atoms, 1, s, 0..Len(s)) # {}

\* The pattern as the call compiles it, spelled out from the arguments.
TheMatcher ==
    [k \in 1..Len(call.match_str) |->
        [name |-> call.match_str[k].name,
         cls |-> IF call.expandIUPAC /\ call.match_str[k].nt = "N" THEN Nts
                 ELSE {call.match_str[k].nt},
         lo |-> call.match_str[k].lo, hi |-> call.match_str[k].hi]]

\* The named groups of the pattern, each once.
GroupNames ==
    IF call.add_group_cols
    THEN {call.match_str[k].name : k \in 1..Len(call.match_str)} \ {""}
    ELSE {}

InMatchSeqs == call.fn = "matchSeqs"

InAlignSeqs == call.fn = "alignSeqs"

Read(r) == Col(df, "CCS")[r]

Matched(r) == match_d[call.match_col][r]

PolarityOf(r) == match_d[call.match_col \o "_polarity"][r]

\* Every segment the call emits for row r holds its no-match value.
AllSentinel(r) ==
    \A g \in GroupNames :
        /\ match_d[g][r] = << >>
        /\ call.add_qvals => match_d[g \o "_qvals"][r] = << >>
        /\ call.add_accuracy => NumEq(match_d[g \o "_accuracy"][r], -1)

\* C1: a row whose sequence matches the pattern neither as given nor as its
\* reverse complement gets match flag false, polarity 0 and, for every named
\* group, the empty value, the empty quality slice and accuracy -1; no error
\* is raised for it.
C1_UnmatchedRowSentinels ==
    InMatchSeqs =>
        \A r \in 1..Len(ms) :
            (~Accepts(TheMatcher, Read(r))
             /\ ~Accepts(TheMatcher, reverseComplement(Read(r)))) =>
                /\ err = ""
                /\ pc # "raised"
                /\ Matched(r) = FALSE
                /\ call.add_polarity => PolarityOf(r) = 0
                /\ AllSentinel(r)

C1_Witness ==
    /\ InMatchSeqs
    /\ pc = "returned"
    /\ call.add_polarity /\ call.add_group_cols /\ call.add_accuracy /\ call.add_qvals
    /\ GroupNames # {}
    /\ \E r \in 1..Len(ms) : ~ms[r].m.ok

\* C2: polarity is +1 exactly when the pattern matches the sequence as given,
\* -1 exactly when it does not but matches the reverse complement, 0 exactly
\* when neither matches; the reverse complement is searched only after the
\* search of the sequence as given has failed.
C2_PolarityByOrientation ==
    InMatchSeqs =>
        \A r \in 1..Len(ms) :
            LET fwd == Accepts(TheMatcher, Read(r))
                rev == Accepts(TheMatcher, reverseComplement(Read(r)))
            IN  /\ call.add_polarity =>
                    /\ PolarityOf(r) = 1 <=> fwd
                    /\ PolarityOf(r) = -1 <=> (~fwd /\ rev)
                    /\ PolarityOf(r) = 0 <=> (~fwd /\ ~rev)
                /\ ms[r].searched =
                     IF fwd THEN << "given" >> ELSE << "given", "revcomp" >>

C2_Witness ==
    /\ InMatchSeqs
    /\ call.add_polarity
    /\ Len(ms) = 2
    /\ PolarityOf(1) = 1
    /\ PolarityOf(2) = -1

\* C3 as claimed, on the calls that emit a named segment: for every row,
\* polarity = 0, matched = false and "every named segment has the empty
\* value, the empty quality slice and accuracy -1" are equivalent, so that no
\* matched row has all of its segments empty.
C3_SentinelEquivalence ==
    (InMatchSeqs /\ GroupNames # {}) =>
        \A r \in 1..Len(ms) :
            /\ call.add_polarity => (PolarityOf(r) = 0 <=> Matched(r) = FALSE)
            /\ Matched(r) = FALSE <=> AllSentinel(r)

\* C3 as amended: polarity = 0 exactly when matched = false; an unmatched row
\* has every segment at its no-match value; and a row with every segment at
\* its no-match value is unmatched provided the pattern has a named group and
\* the accuracy column is emitted (the accuracy of a matched group is a mean
\* or nan, never -1).
C3_SentinelOfUnmatched ==
    InMatchSeqs =>
        \A r \in 1..Len(ms) :
            /\ call.add_polarity => (PolarityOf(r) = 0 <=> Matched(r) = FALSE)
            /\ Matched(r) = FALSE => AllSentinel(r)
            /\ (GroupNames # {} /\ call.add_accuracy /\ AllSentinel(r)) =>
                    Matched(r) = FALSE

\* A matched row whose only group matched the empty string, with accuracy.
C3_Witness ==
    /\ InMatchSeqs
    /\ call.add_accuracy
    /\ GroupNames # {}
    /\ \E r \in 1..Len(ms) :
          /\ Matched(r)
          /\ \A g \in GroupNames :
                match_d[g][r] = << >> /\ match_d[g \o "_accuracy"][r].nan

RECURSIVE Flatten(_)
Flatten(ss) == IF Len(ss) = 0 THEN << >> ELSE Head(ss) \o Flatten(Tail(ss))

\* The values of the groups of row r, in the order of the pattern.
GroupValues(r) ==
    LET names == SelectSeq([k \in 1..Len(call.match_str) |-> call.match_str[k].name],
                           LAMBDA g : g # "")
    IN  [k \in 1..Len(names) |-> match_d[names[k]][r]]

\* The local m of row r spans [m.start(), m.end()).
MatchedSpan(r) == Slice(Read(r), ms[r].m.start, MatchEnd(ms[r].m))

\* No two groups of the pattern have one name.
UniqueNames(re_str) ==
    \A j, k \in 1..Len(re_str) :
        (re_str[j].name # "" /\ re_str[j].name = re_str[k].name) => j = k

\* C4 as claimed, on the patterns with at least one group and no name used
\* twice: for every read matched as given, the values of the named groups
\* concatenated in pattern order are the substring the whole match covers,
\* also when the pattern has literal content outside the named groups.
C4_GroupsCoverMatch ==
    (InMatchSeqs /\ GroupNames # {} /\ UniqueNames(call.match_str)) =>
        \A r \in 1..Len(ms) :
            (ms[r].m.ok /\ ms[r].polarity = 1) =>
                Flatten(GroupValues(r)) = MatchedSpan(r)

\* The whole pattern lies inside named groups, no two of one name.
Tiled(re_str) ==
    /\ \A k \in 1..Len(re_str) : re_str[k].name # ""
    /\ UniqueNames(re_str)

\* C4 as amended: the same, for every pattern whose whole content lies
\* inside its named groups (no literal content outside them).
C4_TiledGroupsCoverMatch ==
    (InMatchSeqs /\ call.add_group_cols /\ Tiled(call.match_str)) =>
        \A r \in 1..Len(ms) :
            (ms[r].m.ok /\ ms[r].polarity = 1) =>
                Flatten(GroupValues(r)) = MatchedSpan(r)

C4_Witness ==
    /\ InMatchSeqs
    /\ call.add_group_cols
    /\ Tiled(call.match_str)
    /\ \E r \in 1..Len(ms) :
          ms[r].m.ok /\ ms[r].polarity = 1 /\ Len(MatchedSpan(r)) = MaxLen

\* Row o of the table is given the reverse complement of row r, and its
\* result mirrors that of row r: matched, polarity -1, the same values.
Mirrors(r, o) ==
    /\ Matched(o) = TRUE
    /\ ms[o].polarity = -1
    /\ call.add_polarity => PolarityOf(o) = -1
    /\ \A g \in GroupNames : match_d[g][o] = match_d[g][r]

\* C5 as claimed, on the calls that emit the polarity and the groups: for
\* every sequence that matches as given, matchSeqs on its reverse complement
\* yields matched, polarity -1 and the values extracted from the sequence
\* itself.
C5_OrientationSymmetry ==
    (InMatchSeqs /\ Len(ms) = 2 /\ call.add_polarity /\ GroupNames # {}) =>
        \A r \in 1..2 :
            (/\ Read(3 - r) = reverseComplement(Read(r))
             /\ Accepts(TheMatcher, Read(r))) => Mirrors(r, 3 - r)

\* C5 as amended: the same, for every sequence that matches as given and
\* whose reverse complement does not itself match as given.
C5_OrientationSymmetryOneWay ==
    (InMatchSeqs /\ Len(ms) = 2) =>
        \A r \in 1..2 :
            (/\ Read(3 - r) = reverseComplement(Read(r))
             /\ Accepts(TheMatcher, Read(r))
             /\ ~Accepts(TheMatcher, Read(3 - r))) => Mirrors(r, 3 - r)

C5_Witness ==
    /\ InMatchSeqs
    /\ Len(ms) = 2
    /\ GroupNames # {}
    /\ Accepts(TheMatcher, Read(1))
    /\ ~Accepts(TheMatcher, Read(2))
    /\ Len(Read(1)) = MaxLen

\* The columns the call makes that the caller's table already holds.
Collisions ==
    LET made ==
          IF InMatchSeqs
          THEN {call.match_col}
               \cup (IF call.add_polarity THEN {call.match_col \o "_polarity"} ELSE {})
               \cup GroupNames
               \cup (IF call.add_accuracy THEN {g \o "_accuracy" : g \in GroupNames}
                     ELSE {})
               \cup (IF call.add_qvals THEN {g \o "_qvals" : g \in GroupNames} ELSE {})
          ELSE {call.aligned_col}
    IN  made \cap Columns(df)

\* The lists of the new columns.
NewLists == IF InMatchSeqs THEN match_d ELSE align_d

\* The returned table holds every new column once, with the values the call
\* computed, and every other column of the caller's table as it was.
ReplacedAndKept ==
    /\ \A c \in DOMAIN NewLists :
          /\ Cardinality({k \in DOMAIN result.cols : result.cols[k].name = c}) = 1
          /\ \A k \in DOMAIN result.cols :
                result.cols[k].name = c =>
                    result.cols[k].src = "new" /\ result.cols[k].vals = NewLists[c]
    /\ \A j \in DOMAIN df.cols :
          df.cols[j].name \notin DOMAIN NewLists =>
              \E k \in DOMAIN result.cols : result.cols[k] = df.cols[j]

\* A call that makes columns (matchSeqs without a pattern makes none).
MakesColumns == InAlignSeqs \/ (InMatchSeqs /\ call.match_str # NoPattern)

\* C6 as claimed: when a column the call would make exists and the caller
\* has not explicitly allowed overwriting, matchSeqs and alignSeqs fail and
\* return no table, alignSeqs before the aligner runs; when overwriting is
\* allowed the colliding columns are replaced and the others kept.
C6_CollisionFatalUnlessExplicit ==
    MakesColumns =>
        /\ (pc # "call" /\ Collisions # {} /\ call.overwrite # "True") =>
              (pc = "raised" /\ result = NoTable /\ maps = << >>)
        /\ pc = "returned" => ReplacedAndKept

\* C6 as amended: the same with "overwriting is not in effect" for "not
\* explicitly allowed": overwrite=False was passed, or overwrite was left out
\* of a call of matchSeqs, whose default is False; alignSeqs defaults to
\* overwrite=True and replaces the colliding columns when it is left out.
C6_CollisionFatalUnlessInEffect ==
    MakesColumns =>
        /\ (/\ pc # "call"
            /\ Collisions # {}
            /\ \/ call.overwrite = "False"
               \/ call.overwrite = "omitted" /\ InMatchSeqs) =>
              (pc = "raised" /\ result = NoTable /\ maps = << >>)
        /\ pc = "returned" => ReplacedAndKept

C6_Witness ==
    /\ pc = "returned"
    /\ InAlignSeqs
    /\ Collisions # {}
    /\ call.overwrite = "True"
    /\ Len(maps) = 1

C8_DuplicateNamesRejected ==
    (InMatchSeqs /\ ~UniqueNames(call.match_str) /\ pc # "call") =>
        (pc = "raised" /\ ms = << >> /\ result = NoTable)

AlignCell(suffix, r) == align_d[call.aligned_col \o suffix][r]

\* Every column alignSeqs emits holds, in row r, its no-alignment value.
UnalignedValues(r) ==
    /\ AlignCell("", r) = FALSE
    /\ call.add_alignment => AlignCell("_alignment", r) = NoAlignment
    /\ call.add_target => AlignCell("_target", r) = ""
    /\ call.add_cigar => AlignCell("_cigar", r) = ""
    /\ call.add_n_trimmed =>
          /\ AlignCell("_n_trimmed_query_start", r) = -1
          /\ AlignCell("_n_trimmed_query_end", r) = -1
          /\ AlignCell("_n_trimmed_target_start", r) = -1
          /\ AlignCell("_n_trimmed_target_end", r) = -1
    /\ call.add_n_additional => AlignCell("_n_additional", r) = -1
    /\ call.add_n_additional_difftarget =>
          AlignCell("_n_additional_difftarget", r) = -1
    /\ call.targetvariants # "None" => AlignCell("_target_variant", r) = ""
    /\ call.mutationcaller # "None" =>
          /\ AlignCell("_substitutions", r) = << >>
          /\ AlignCell("_insertions", r) = << >>
          /\ AlignCell("_deletions", r) = << >>

\* C9: a row is flagged aligned exactly when the aligner's response holds its
\* id; every row without a returned alignment, every row with the empty
\* query among them, gets aligned = false and the no-alignment value in
\* every other column, and no error is raised for it.
C9_UnalignedRowSentinels ==
    (InAlignSeqs /\ pc \in {"loop", "returned", "raised"}
                 /\ DOMAIN align_d # {}) =>
        /\ \A r \in 1..Len(align_d[call.aligned_col]) :
              LET name == Col(df, "name")[r]
              IN  /\ AlignCell("", r) <=> name \in DOMAIN map_dict
                  /\ Col(df, call.query_col)[r] = << >> => name \notin DOMAIN map_dict
                  /\ name \notin DOMAIN map_dict => UnalignedValues(r)
        /\ pc = "raised" =>
              Col(df, "name")[RowsDone + 1] \in DOMAIN map_dict

C9_Witness ==
    /\ InAlignSeqs
    /\ pc = "returned"
    /\ call.add_alignment /\ call.add_target /\ call.add_cigar /\ call.add_n_trimmed
    /\ call.add_n_additional /\ call.add_n_additional_difftarget
    /\ call.targetvariants # "None" /\ call.mutationcaller # "None"
    /\ Col(df, call.query_col)[1] # << >>
    /\ Col(df, call.query_col)[2] = << >>
    /\ AlignCell("", 1) = TRUE
    /\ AlignCell("", 2) = FALSE

\* C10: each call of alignSeqs invokes mapper.map once, and the file the
\* aligner is handed then holds exactly one record (id, sequence) for every
\* row with a non-empty query and none for the other rows.
C10_QueryFileCompleteAtMap ==
    InAlignSeqs =>
        /\ Len(maps) <= 1
        /\ pc \in {"loop", "returned"} => Len(maps) = 1
        /\ \A n \in 1..Len(maps) :
              /\ \A r \in 1..NRows(df) :
                    Col(df, call.query_col)[r] # << >> =>
                        Cardinality({k \in DOMAIN maps[n] :
                            maps[n][k] = << Col(df, "name")[r],
                                            Col(df, call.query_col)[r] >>}) = 1
              /\ \A k \in DOMAIN maps[n] :
                    \E r \in 1..NRows(df) :
                        /\ Col(df, call.query_col)[r] # << >>
                        /\ maps[n][k] = << Col(df, "name")[r],
                                           Col(df, call.query_col)[r] >>

\* The rows for which the aligner returned an alignment on the minus strand.
MinusStrandRows ==
    {r \in 1..NRows(df) :
        /\ Col(df, "name")[r] \in DOMAIN map_dict
        /\ map_dict[Col(df, "name")[r]].strand # 1}

\* C11: when the aligner returns for some row an alignment that is not on
\* the forward strand, alignSeqs returns no table: the row is not made an
\* output row, aligned or unaligned, and the call never returns.
C11_MinusStrandAborts ==
    (InAlignSeqs /\ Len(maps) = 1 /\ MinusStrandRows # {}) =>
        /\ pc \in {"loop", "raised"}
        /\ result = NoTable
        /\ \A r \in MinusStrandRows : RowsDone < r
        /\ (\E r \in MinusStrandRows : RowsDone = r - 1) =>
              \/ pc = "loop"
              \/ err = "AssertionError: method does not handle - polarity"

C11_Witness ==
    /\ InAlignSeqs
    /\ pc = "raised"
    /\ err = "AssertionError: method does not handle - polarity"
    /\ RowsDone = 1
    /\ MinusStrandRows = {2}

\* Row r of column c of the table returned.
ResultCell(c, r) == Col(result, c)[r]

\* The span of group g in the match of row r: the local m of the loop.
SpanStart(r, g) ==
    LET k == Max({j \in 1..Len(call.match_str) : call.match_str[j].name = g})
    IN  IF k = 1 THEN ms[r].m.start ELSE ms[r].m.ends[k - 1]

SpanEnd(r, g) ==
    ms[r].m.ends[Max({j \in 1..Len(call.match_str) : call.match_str[j].name = g})]

\* The read of row r in the orientation of its match.
OrientedRead(r) ==
    IF ms[r].polarity = 1 THEN Read(r) ELSE reverseComplement(Read(r))

\* C14: the table matchSeqs and alignSeqs return has one row per row of df,
\* in the order of df: every column has as many entries as df has rows, the
\* columns of df that are not overwritten come first, unchanged and in their
\* order, and entry r of every new column is computed from row r of df.
C14_RowsPreserved ==
    (MakesColumns /\ pc = "returned") =>
        /\ \A k \in DOMAIN result.cols : Len(result.cols[k].vals) = NRows(df)
        /\ SelectSeq(result.cols, LAMBDA col : col.src = "df")
             = SelectSeq(df.cols, LAMBDA col : col.name \notin DOMAIN NewLists)
        /\ \A k \in DOMAIN result.cols :
              result.cols[k].src = "new" <=> result.cols[k].name \in DOMAIN NewLists
        /\ InMatchSeqs =>
              \A r \in 1..NRows(df) :
                  LET hit == \/ Accepts(TheMatcher, Read(r))
                             \/ Accepts(TheMatcher, reverseComplement(Read(r)))
                  IN  /\ ResultCell(call.match_col, r) = hit
                      /\ call.add_polarity =>
                            ResultCell(call.match_col \o "_polarity", r) =
                                IF Accepts(TheMatcher, Read(r)) THEN 1
                                ELSE IF hit THEN -1 ELSE 0
                      /\ \A g \in GroupNames :
                            ResultCell(g, r) =
                                IF hit
                                THEN Slice(OrientedRead(r), SpanStart(r, g), SpanEnd(r, g))
                                ELSE << >>
        /\ InAlignSeqs =>
              \A r \in 1..NRows(df) :
                  LET name == Col(df, "name")[r]
                  IN  /\ ResultCell(call.aligned_col, r) = (name \in DOMAIN map_dict)
                      /\ call.add_target =>
                            ResultCell(call.aligned_col \o "_target", r) =
                                IF name \in DOMAIN map_dict
                                THEN map_dict[name].target ELSE ""

C14_Witness ==
    /\ pc = "returned"
    /\ InMatchSeqs
    /\ call.match_str # NoPattern
    /\ call.add_polarity
    /\ GroupNames # {}
    /\ Collisions # {}
    /\ ResultCell(call.match_col \o "_polarity", 1) = 1
    /\ ResultCell(call.match_col \o "_polarity", 2) = -1

\* C19: for every matched row and every named group matched at [a, b) of the
\* oriented sequence, the quality slice is as long as the group value and
\* its entry i is the quality of character i of the value: quality[a+i] for
\* polarity +1, quality[n-1-(a+i)] of the array as given for polarity -1;
\* the accuracy is qvalsToAccuracy of that slice.
C19_QualitySlices ==
    (InMatchSeqs /\ call.match_str # NoPattern /\ call.add_group_cols) =>
        \A r \in 1..Len(ms) :
            ms[r].m.ok =>
                \A g \in GroupNames :
                    LET a == SpanStart(r, g)
                        b == SpanEnd(r, g)
                        n == Len(Read(r))
                        Q == Col(df, call.col_to_match \o "_qvals")[r]
                        val == match_d[g][r]
                        slice == [i \in 1..(b - a) |->
                                    IF ms[r].polarity = 1 THEN Q[a + i]
                                    ELSE Q[n + 1 - (a + i)]]
                    IN  /\ Len(val) = b - a
                        /\ \A i \in 1..(b - a) :
                              val[i] = IF ms[r].polarity = 1 THEN Read(r)[a + i]
                                       ELSE Complement(Read(r)[n + 1 - (a + i)])
                        /\ call.add_qvals => match_d[g \o "_qvals"][r] = slice
                        /\ call.add_accuracy =>
                              match_d[g \o "_accuracy"][r] = qvalsToAccuracy(slice)

C19_Witness ==
    /\ InMatchSeqs
    /\ call.match_str = PatTermini
    /\ call.add_group_cols /\ call.add_qvals /\ call.add_accuracy
    /\ Len(ms) = 2
    /\ ms[2].m.ok
    /\ ms[2].polarity = -1
    /\ match_d["gene_qvals"][2] = << 20 >>
    /\ match_d["termini3_qvals"][2] = << 10 >>

\* C20: for every aligned row the variant hook, when configured, is called
\* once, with the aligner's alignment, and before the mutation hook; the
\* mutation hook is called with the alignment the variant hook returned; the
\* alignment, target, cigar, trim and additional columns of the row come
\* from that alignment too; no hook is called for an unaligned row.
C20_HookOrder ==
    (InAlignSeqs /\ Len(maps) = 1) =>
        \A r \in 1..RowsDone :
            LET name == Col(df, "name")[r]
                a0 == map_dict[name]
                tv == call.targetvariants # "None"
                mc == call.mutationcaller # "None"
                A == IF tv THEN targetvariants_call(a0).a ELSE a0
                mine == SelectSeq(hooks, LAMBDA h : h.row = r)
            IN  IF name \notin DOMAIN map_dict
                THEN mine = << >>
                ELSE /\ mine =
                          (IF tv THEN << [hook |-> "targetvariants", a |-> a0,
                                          row |-> r] >> ELSE << >>)
                          \o (IF mc THEN << [hook |-> "mutationcaller", a |-> A,
                                             row |-> r] >> ELSE << >>)
                     /\ tv => AlignCell("_target_variant", r) =
                                  targetvariants_call(a0).variant
                     /\ mc =>
                          /\ AlignCell("_substitutions", r) =
                                mutationcaller_call(A).substitutions
                          /\ AlignCell("_insertions", r) =
                                mutationcaller_call(A).insertions
                          /\ AlignCell("_deletions", r) =
                                mutationcaller_call(A).deletions
                     /\ call.add_alignment => AlignCell("_alignment", r) = A
                     /\ call.add_target => AlignCell("_target", r) = A.target
                     /\ call.add_cigar => AlignCell("_cigar", r) = A.cigar_str
                     /\ call.add_n_trimmed =>
                          /\ AlignCell("_n_trimmed_query_start", r) = A.q_st
                          /\ AlignCell("_n_trimmed_query_end", r) = A.q_len - A.q_en
                          /\ AlignCell("_n_trimmed_target_start", r) = A.r_st
                          /\ AlignCell("_n_trimmed_target_end", r) = A.r_len - A.r_en
                     /\ call.add_n_additional =>
                          AlignCell("_n_additional", r) = Len(A.additional)

C20_Witness ==
    /\ InAlignSeqs
    /\ pc = "returned"
    /\ call.targetvariants # "None" /\ call.mutationcaller # "None"
    /\ call.add_alignment /\ call.add_cigar /\ call.add_n_trimmed
    /\ "r1" \in DOMAIN map_dict
    /\ map_dict["r1"] = AlnTrimmed
    /\ AlignCell("_alignment", 1) # AlnTrimmed
    /\ "r2" \notin DOMAIN map_dict
    /\ Len(hooks) = 2

\* Two rows of the table have one name.
DuplicateNames(names) ==
    \E i, j \in 1..Len(names) : i # j /\ names[i] = names[j]

\* The names of the rows of all the frames of ccslist.
PipeNames ==
    Flatten([k \in DOMAIN pipe.ccslist |-> Col(pipe.ccslist[k], "name")])

\* C12: when two rows of the table share a name, alignSeqs raises, returns
\* no table and does not invoke the aligner; matchAndAlignCCS, given frames
\* whose rows share a name (also frames that are each without duplicates),
\* returns no table and no call of it invokes the aligner.
C12_DuplicateNamesFatal ==
    /\ (InAlignSeqs /\ pc # "call" /\ DuplicateNames(Col(df, "name"))) =>
          (pc = "raised" /\ maps = << >> /\ result = NoTable)
    /\ (InPipe /\ DuplicateNames(PipeNames)) =>
          /\ pc # "done"
          /\ pipe.out = NoTable
          /\ pipe.stage <= 5
          /\ maps = << >>

C12_Witness ==
    /\ InPipe
    /\ pipe.iterable
    /\ \A k \in DOMAIN pipe.ccslist : ~DuplicateNames(Col(pipe.ccslist[k], "name"))
    /\ DuplicateNames(PipeNames)
    /\ pipe.stage = 5
    /\ pc = "raised"
    /\ err = "AssertionError: name not unique"

\* The table matchAndAlignCCS returns is the object it was given.
PipeAliased == pipe.saved_alias /\ pipe.out.obj = pipe.saved.obj

\* C13 as claimed: every call of matchSeqs and alignSeqs, matchSeqs with
\* match_str = None among them, returns an object that is not its argument
\* df and leaves df as it was; matchAndAlignCCS returns an object that is not
\* the frame of the CCS it was given and leaves the frames as they were.
C13_NoAliasNoMutation ==
    /\ [](/\ ((InMatchSeqs \/ InAlignSeqs) /\ pc = "returned") => result.obj # "df"
          /\ InPipe => pipe.ccs_now = pipe.ccslist
          /\ (InPipe /\ pc = "done") => ~PipeAliased)
    /\ [][~InPipe => df' = df]_vars

\* C13 as amended: the same for every call that makes a column; matchSeqs
\* with match_str = None returns its argument df itself, unchanged.
C13_NoAliasUnlessNoPattern ==
    /\ [](/\ (MakesColumns /\ pc = "returned") => result.obj # "df"
          /\ (InMatchSeqs /\ call.match_str = NoPattern /\ pc = "returned") =>
                result = df
          /\ InPipe => pipe.ccs_now = pipe.ccslist
          /\ (InPipe /\ pc = "done") => ~PipeAliased)
    /\ [][~InPipe => df' = df]_vars

C13_Witness ==
    /\ InPipe
    /\ pc = "done"
    /\ ~pipe.iterable
    /\ pipe.rc_barcode_umi
    /\ pipe.barcode # NoArg
    /\ Col(pipe.out, "barcode") # Col(pipe.final, "barcode")

\* C15: with rc_barcode_umi, for every row the barcode and the UMI returned
\* are the reverse complement of the values extracted and their quality
\* arrays are the extracted ones reversed, so that entry i of barcode_qvals
\* is the quality of character i of barcode; unmatched rows keep the empty
\* value and the empty quality slice.
C15_BarcodeUmiNormalized ==
    (InPipe /\ pc = "done" /\ pipe.rc_barcode_umi) =>
        \A r \in 1..NRows(pipe.out) :
            \A g \in {"barcode", "UMI"} \cap Columns(pipe.out) :
                /\ Col(pipe.out, g)[r] = reverseComplement(Col(pipe.final, g)[r])
                /\ Col(pipe.out, g \o "_qvals")[r] =
                      flip(Col(pipe.final, g \o "_qvals")[r])
                /\ ~Col(pipe.out, "barcoded")[r] =>
                      /\ Col(pipe.out, g)[r] = << >>
                      /\ Col(pipe.out, g \o "_qvals")[r] = << >>

\* C16: CCS_aligned is true exactly when the read aligned as given or as its
\* reverse complement; CCS_aligned_alignment is the alignment of the read as
\* given whenever there is one and else that of the reverse complement; it is
\* None, and CCS_aligned_target is '', exactly when CCS_aligned is false.
C16_BothOrientations ==
    (InPipe /\ pc = "done") =>
        \A r \in 1..NRows(pipe.out) :
            LET name == Col(pipe.out, "name")[r]
                fwd == name \in DOMAIN pipe.for_map
                rev == name \in DOMAIN map_dict
                aligned == Col(pipe.out, "CCS_aligned")[r]
                a == Col(pipe.out, "CCS_aligned_alignment")[r]
                target == Col(pipe.out, "CCS_aligned_target")[r]
            IN  /\ aligned <=> (fwd \/ rev)
                /\ fwd => a = pipe.for_map[name]
                /\ (~fwd /\ rev) => a = map_dict[name]
                /\ (a = NoAlignment) <=> ~aligned
                /\ (target = "") <=> ~aligned
                /\ aligned => target = a.target

C16_Witness ==
    /\ InPipe
    /\ pc = "done"
    /\ NRows(pipe.out) = 2
    /\ "r1" \in DOMAIN pipe.for_map /\ "r1" \in DOMAIN map_dict
    /\ pipe.for_map["r1"] # map_dict["r1"]
    /\ "r2" \notin DOMAIN pipe.for_map /\ "r2" \in DOMAIN map_dict

\* C17: in every row matchAndAlignCCS returns, gene_aligned implies barcoded
\* (the gene of a read that does not match is not written to the query
\* file), and a row that is not gene_aligned has the no-alignment value in
\* every gene_aligned_ column.
C17_GeneAlignedImpliesBarcoded ==
    InPipe =>
        /\ (pipe.stage = 5 /\ InAlignSeqs) =>
              \A n \in 1..Len(maps) : \A k \in DOMAIN maps[n] :
                  \E r \in 1..NRows(df) :
                      /\ Col(df, "name")[r] = maps[n][k][1]
                      /\ Col(df, "barcoded")[r]
        /\ pc = "done" =>
              \A r \in 1..NRows(pipe.out) :
                  LET cell(suffix) == Col(pipe.out, "gene_aligned" \o suffix)[r]
                  IN  /\ cell("") => Col(pipe.out, "barcoded")[r]
                      /\ ~cell("") =>
                            /\ cell("_alignment") = NoAlignment
                            /\ cell("_target") = ""
                            /\ cell("_cigar") = ""
                            /\ cell("_n_trimmed_query_start") = -1
                            /\ cell("_n_trimmed_query_end") = -1
                            /\ cell("_n_trimmed_target_start") = -1
                            /\ cell("_n_trimmed_target_end") = -1
                            /\ cell("_n_additional") = -1
                            /\ cell("_n_additional_difftarget") = -1
                            /\ pipe.targetvariants # "None" =>
                                  cell("_target_variant") = ""
                            /\ pipe.mutationcaller # "None" =>
                                  /\ cell("_substitutions") = << >>
                                  /\ cell("_insertions") = << >>
                                  /\ cell("_deletions") = << >>

C17_Witness ==
    /\ InPipe
    /\ pc = "done"
    /\ pipe.mutationcaller # "None"
    /\ NRows(pipe.out) = 2
    /\ Col(pipe.out, "gene_aligned")[1]
    /\ ~Col(pipe.out, "barcoded")[2]
    /\ ~Col(pipe.out, "gene_aligned")[2]

\* C21: with a variant hook whose variantsites_min_acc is None, a call on a
\* table without the column query_col + '_qvals' is not refused for the
\* missing column, raises nothing in an aligned row on the plus strand (the
\* hook is called for it, without a quality array), and the table returned
\* holds the hook's variant for every aligned row.
C21_QvalsOnlyForMinAcc ==
    (InAlignSeqs /\ call.targetvariants = "min_acc_None"
        /\ align_qvals_col \notin Columns(df)) =>
        /\ err \notin {"ValueError: no qvals column", "NameError: qvals"}
        /\ pc = "returned" =>
              \A r \in 1..NRows(df) :
                  LET name == Col(df, "name")[r]
                  IN  name \in DOMAIN map_dict =>
                          /\ ResultCell(call.aligned_col \o "_target_variant", r) =
                                targetvariants_call(map_dict[name]).variant
                          /\ \E k \in DOMAIN hooks :
                                /\ hooks[k].hook = "targetvariants"
                                /\ hooks[k].row = r

\* The alignment of row r the columns are computed from: the one in the
\* alignment column, or the aligner's after the variant hook.
RowAlignment(r) ==
    LET a0 == map_dict[Col(df, "name")[r]]
    IN  IF call.add_alignment THEN AlignCell("_alignment", r)
        ELSE IF call.targetvariants # "None" THEN targetvariants_call(a0).a
        ELSE a0

\* The offsets of the alignment are in order and within the lengths.
OffsetsInRange(a) ==
    /\ 0 <= a.q_st /\ a.q_st <= a.q_en /\ a.q_en <= a.q_len
    /\ 0 <= a.r_st /\ a.r_st <= a.r_en /\ a.r_en <= a.r_len

\* The alignment covers the whole query and the whole target.
EndToEnd(a) ==
    /\ a.q_st = 0 /\ a.q_en = a.q_len
    /\ a.r_st = 0 /\ a.r_en = a.r_len

TrimCells(r) ==
    [k \in 1..4 |-> AlignCell("_n_trimmed_" \o TrimSuffixes[k], r)]

\* C22: for every aligned row whose alignment has its offsets in order and
\* within the lengths, the four trim columns are q_st, q_len - q_en, r_st
\* and r_len - r_en, none is negative, and all are 0 exactly when the
\* alignment is end to end on query and target; a trim column is -1 exactly
\* in the rows without an alignment.
C22_TrimCounts ==
    (InAlignSeqs /\ Len(maps) = 1 /\ call.add_n_trimmed) =>
        \A r \in 1..RowsDone :
            LET aligned == Col(df, "name")[r] \in DOMAIN map_dict
                trims == TrimCells(r)
            IN  /\ (aligned /\ OffsetsInRange(RowAlignment(r))) =>
                      LET a == RowAlignment(r)
                      IN  /\ trims = << a.q_st, a.q_len - a.q_en,
                                        a.r_st, a.r_len - a.r_en >>
                          /\ \A k \in 1..4 : trims[k] >= 0
                          /\ (\A k \in 1..4 : trims[k] = 0) <=> EndToEnd(a)
                /\ \A k \in 1..4 : (trims[k] = -1) <=> ~aligned

\* An alignment trimmed at both ends, one end to end, one that the variant
\* hook made end to end on the query alone, and a row without alignment.
C22_Witness ==
    /\ InAlignSeqs
    /\ pc = "returned"
    /\ call.add_n_trimmed /\ call.add_alignment
    /\ \/ /\ call.targetvariants = "None"
          /\ TrimCells(1) = << 1, 0, 2, 1 >>
          /\ TrimCells(2) = << 0, 0, 0, 0 >>
       \/ /\ call.targetvariants = "min_acc"
          /\ TrimCells(1) = << 0, 0, 2, 1 >>
          /\ TrimCells(2) = << -1, -1, -1, -1 >>

\* Targets the aligner's configuration declares isoforms of each other.
IsoformEquivalent(t, u) == t # u /\ {t, u} \subseteq {"T1", "T1b"}

\* C23: for every aligned row, n_additional is the number of secondary
\* alignments of its alignment and n_additional_difftarget the number of
\* those on a target that is neither the primary target nor an isoform of
\* it, so 0 <= n_additional_difftarget <= n_additional and a secondary
\* alignment on the primary target is not counted.
C23_AdditionalCounts ==
    (InAlignSeqs /\ Len(maps) = 1) =>
        \A r \in 1..RowsDone :
            Col(df, "name")[r] \in DOMAIN map_dict =>
                LET a == RowAlignment(r)
                    other == SelectSeq(a.additional,
                                LAMBDA t : t # a.target
                                           /\ ~IsoformEquivalent(t, a.target))
                IN  /\ call.add_n_additional =>
                          AlignCell("_n_additional", r) = Len(a.additional)
                    /\ call.add_n_additional_difftarget =>
                          /\ AlignCell("_n_additional_difftarget", r) = Len(other)
                          /\ 0 <= AlignCell("_n_additional_difftarget", r)
                          /\ AlignCell("_n_additional_difftarget", r)
                                <= Len(a.additional)

\* A row with three secondary alignments: on the primary target, on an
\* isoform of it and on another target; a row with none.
C23_Witness ==
    /\ InAlignSeqs
    /\ pc = "returned"
    /\ call.add_n_additional /\ call.add_n_additional_difftarget
    /\ DOMAIN map_dict = {"r1", "r2"}
    /\ map_dict["r1"].additional = << "T1", "T1b", "T2" >>
    /\ AlignCell("_n_additional", 1) = 3
    /\ AlignCell("_n_additional_difftarget", 1) = 1
    /\ AlignCell("_n_additional", 2) = 0
    /\ AlignCell("_n_additional_difftarget", 2) = 0

(***************************************************************************)
(* The properties of re_expandIUPAC                                         *)
(***************************************************************************)
\* A group name marker, from the text alone: "(?P<" at i, and j the first
\* ">" after it.
IsMarker(s, i, j) ==
    /\ i + 3 <= Len(s)
    /\ s[i] = "(" /\ s[i + 1] = "?" /\ s[i + 2] = "P" /\ s[i + 3] = "<"
    /\ j \in (i + 4)..Len(s)
    /\ s[j] = ">"
    /\ \A h \in (i + 4)..(j - 1) : s[h] # ">"

InMarker(s, p) == \E i \in 1..p, j \in p..Len(s) : IsMarker(s, i, j)

\* A marker begins at i, outside every marker that began before.
MarkerStart(s, i) ==
    /\ i \in 1..Len(s)
    /\ \E j \in i..Len(s) : IsMarker(s, i, j)
    /\ ~\E h \in 1..(i - 1), j \in i..Len(s) : IsMarker(s, h, j)

\* The name of the group of the marker at i.
MarkerName(s, i) ==
    LET j == CHOOSE j \in i..Len(s) : IsMarker(s, i, j)
    IN  SubSeq(s, i + 4, j - 1)

\* The ambiguous codes among the keys of NT_TO_REGEXP.
IsCode(c) == c \in {"N", "S"}

\* The character at i is escaped: an odd number of backslashes precedes it.
Escaped(s, i) ==
    LET n == CHOOSE n \in 0..(i - 1) :
                /\ \A h \in (i - n)..(i - 1) : s[h] = "\\"
                /\ n = i - 1 \/ s[i - n - 1] # "\\"
    IN  n % 2 = 1

\* The character at i belongs to the name of a back-reference (?P=name).
InBackref(s, i) ==
    \E j \in 1..(i - 4) :
        /\ s[j] = "(" /\ s[j + 1] = "?" /\ s[j + 2] = "P" /\ s[j + 3] = "="
        /\ \A h \in (j + 4)..i : s[h] # ")"

\* The character at i is a literal of the pattern: it matches itself.
IsLiteral(s, i) == ~Escaped(s, i) /\ ~InBackref(s, i)

\* Where the piece for the character at i begins in the string returned.
At(i) == 1 + Len(join(SubSeq(new_re_str, 1, i - 1)))

Expanded == InExpand /\ pc = "returned"

\* Every character of a group name marker is copied.
MarkersVerbatim ==
    \A i \in 1..Len(call.re_str) :
        InMarker(call.re_str, i) => new_re_str[i] = << call.re_str[i] >>

\* The string returned has the markers of re_str, with the same names, and
\* no other.
MarkersKept ==
    LET s == call.re_str
    IN  /\ \A i \in 1..Len(s) :
              MarkerStart(s, i) =>
                  /\ MarkerStart(result, At(i))
                  /\ MarkerName(result, At(i)) = MarkerName(s, i)
        /\ \A p \in 1..Len(result) :
              MarkerStart(result, p) =>
                  \E i \in 1..Len(s) : At(i) = p /\ MarkerStart(s, i)

\* C18 as stated: every character of a group name marker is copied, the
\* only characters changed elsewhere are literals that are ambiguous codes,
\* each replaced by its class, and the groups and their names are kept.
C18_OnlyLiteralsChanged ==
    Expanded =>
        LET s == call.re_str
        IN  /\ MarkersVerbatim
            /\ \A i \in 1..Len(s) :
                  new_re_str[i] # << s[i] >> =>
                      /\ IsCode(s[i])
                      /\ IsLiteral(s, i)
                      /\ new_re_str[i] = NT_TO_REGEXP_str(s[i])
            /\ MarkersKept

\* C18: every character of a group name marker (from "(?P<" to the next
\* ">") is copied; outside the markers every ambiguous code is replaced by
\* its class, whatever it is in the pattern (a literal, the letter of an
\* escape, the name in a back-reference), and every other character is
\* copied; the string returned is the pieces in order, and it has the
\* same markers with the same names.
C18_EveryCodeOutsideMarkers ==
    Expanded =>
        LET s == call.re_str
        IN  /\ Len(new_re_str) = Len(s)
            /\ MarkersVerbatim
            /\ \A i \in 1..Len(s) :
                  ~InMarker(s, i) =>
                      new_re_str[i] = IF IsCode(s[i])
                                      THEN NT_TO_REGEXP_str(s[i])
                                      ELSE << s[i] >>
            /\ Len(result) = At(Len(s) + 1) - 1
            /\ \A i \in 1..Len(s) :
                  SubSeq(result, At(i), At(i + 1) - 1) = new_re_str[i]
            /\ MarkersKept

\* Two markers, one right after the other, named by an ambiguous code, and
\* a code after them that was replaced.
C18_Witness ==
    /\ Expanded
    /\ LET s == call.re_str
       IN  \E i \in 1..Len(s), k \in 1..Len(s) :
              /\ MarkerStart(s, i) /\ MarkerName(s, i) = << "N" >>
              /\ MarkerStart(s, i + 6) /\ MarkerName(s, i + 6) = << "N" >>
              /\ k > i + 11
              /\ s[k] = "N"
              /\ new_re_str[k] = << "[", "A", "C", "G", "T", "]" >>
              /\ new_re_str[i + 4] = << "N" >>
              /\ new_re_str[i + 10] = << "N" >>

====
